---------------------------- MODULE Spec2Model ----------------------------
(***************************************************************************)
(* mini-dns (src/index.js): the DNS wire codec (pkgHeader, unpkgHeader,    *)
(* pkgQuestion, unpkgQuestion, pkgRR, unpkgRR, unpkgdns) and the UDP       *)
(* 'message' handler that answers every query with one stub record.        *)
(*                                                                         *)
(* Buffers are sequences of bytes 0..255; offsets are the code's 0-based   *)
(* offsets.  JavaScript strings are sequences of character codes.  The     *)
(* decoder is stepped one loop iteration at a time, so that its            *)
(* termination is a property of the model and not of the evaluator.        *)
(***************************************************************************)
EXTENDS Integers, Sequences, FiniteSets, TLC

\* ------------------------------------------------------------------ bounds
\* The longest section (questions, answers) of a sender's structured message.
MaxEntries == 2

\* ------------------------------------------------- Buffer and String helpers
Min(a, b) == IF a < b THEN a ELSE b

\* msg[off]: the byte at a 0-based offset (callers guard off < msg.length).
At(m, off) == m[off + 1]

\* Buffer.slice(start, end): both ends clamped to the buffer, no copy, no error.
Slice(m, start, end) ==
    LET s == Min(start, Len(m))
        e == Min(end, Len(m))
    IN  IF e <= s THEN << >> ELSE SubSeq(m, s + 1, e)

\* buf.toString('ascii'): one character per byte, the high bit dropped.
ToAscii(bytes) == [i \in 1..Len(bytes) |-> bytes[i] % 128]

\* buf.write(str): the characters written here are ASCII, one byte each.
WriteStr(str) == [i \in 1..Len(str) |-> str[i] % 256]

\* A 32-bit unsigned number is kept as its two 16-bit halves, high half
\* first (the evaluator's integers are 32-bit signed).
U32(hi, lo) == << hi, lo >>

\* writeUInt16BE / writeUInt32BE of a value that fits.
U16BE(n) == << (n \div 256) % 256, n % 256 >>
U32BE(n) == U16BE(n[1]) \o U16BE(n[2])

\* readUInt8 / readUInt16BE / readUInt32BE throw a RangeError unless the
\* whole field lies inside the buffer.
CanRead(m, off, n) == off >= 0 /\ off + n <= Len(m)
ReadU8(m, off) == At(m, off)
ReadU16(m, off) == At(m, off) * 256 + At(m, off + 1)
ReadU32(m, off) == U32(ReadU16(m, off), ReadU16(m, off + 2))

RECURSIVE Flatten(_)
\* Buffer.concat of a list of buffers.
Flatten(bufs) ==
    IF bufs = << >> THEN << >> ELSE Head(bufs) \o Flatten(Tail(bufs))

\* The character '.' that joins and splits labels.
Dot == 46

RECURSIVE JoinDot(_)
\* names.join('.')
JoinDot(names) ==
    IF names = << >> THEN << >>
    ELSE IF Len(names) = 1 THEN names[1]
    ELSE names[1] \o << Dot >> \o JoinDot(Tail(names))

RECURSIVE SplitDot(_)
\* question.split('.'): always at least one segment, '' for the empty string.
SplitDot(str) ==
    IF \A i \in 1..Len(str) : str[i] # Dot THEN << str >>
    ELSE LET p == CHOOSE i \in 1..Len(str) :
                     str[i] = Dot /\ \A j \in 1..(i - 1) : str[j] # Dot
         IN  << SubSeq(str, 1, p - 1) >> \o SplitDot(SubSeq(str, p + 1, Len(str)))

\* ------------------------------------------------------------ flag strings
\* A flag sub-field is a JavaScript value: a string of '0'/'1' characters as
\* unpkgHeader slices it, or a number as the handler's merge writes it.
Str(s) == [t |-> "string", v |-> s]
Num(n) == [t |-> "number", v |-> n]
Chr0 == 48
Chr1 == 49

RECURSIVE ToBinary(_)
\* Number.prototype.toString(2) of a non-negative integer.
ToBinary(n) ==
    IF n < 2 THEN << Chr0 + n >> ELSE ToBinary(n \div 2) \o << Chr0 + (n % 2) >>

\* _.padStart(s, 16, '0')
PadStart16(s) == [i \in 1..(16 - Len(s)) |-> Chr0] \o s

\* The string a value becomes when '+' concatenates it to a string.
ToStr(x) == IF x.t = "number" THEN ToBinary(x.v) ELSE x.v

RECURSIVE ParseBits(_, _)
ParseBits(s, acc) ==
    IF s = << >> \/ Head(s) \notin {Chr0, Chr1} THEN acc
    ELSE ParseBits(Tail(s), 2 * acc + (Head(s) - Chr0))

\* parseInt(s, 2): the value of the longest prefix of binary digits
\* (NaN, written -1, when there is none).
ParseInt2(s) ==
    IF s = << >> \/ Head(s) \notin {Chr0, Chr1} THEN -1 ELSE ParseBits(s, 0)

\* ----------------------------------------------------------------- encoders
\* FlagString with rd and ra concatenated in the wrong order.
FlagStringSwapped(flags) ==
    ToStr(flags.qr) \o ToStr(flags.opcode) \o ToStr(flags.aa) \o ToStr(flags.tc)
    \o ToStr(flags.ra) \o ToStr(flags.rd) \o ToStr(flags.zero) \o ToStr(flags.rcode)

\* The string pkgHeader hands to parseInt(.., 2):
\* flags.qr + flags.opcode + flags.aa + flags.tc + flags.rd + flags.ra + ...
FlagString(flags) ==
    ToStr(flags.qr) \o ToStr(flags.opcode) \o ToStr(flags.aa) \o ToStr(flags.tc)
    \o ToStr(flags.rd) \o ToStr(flags.ra) \o ToStr(flags.zero) \o ToStr(flags.rcode)

pkgHeader(transactionId, flags, questionRRC, answerRRC, authorityRRC, additionalRRC) ==
    U16BE(transactionId) \o U16BE(ParseInt2(FlagString(flags)))
    \o U16BE(questionRRC) \o U16BE(answerRRC)
    \o U16BE(authorityRRC) \o U16BE(additionalRRC)

RECURSIVE WriteLabels(_, _, _)
\* The loop of pkgQuestion: a length byte and the label, for each segment.
WriteLabels(buf, names, offset) ==
    IF names = << >> THEN [buf |-> buf, offset |-> offset]
    ELSE LET name == Head(names)
             b1 == [buf EXCEPT ![offset + 1] = Len(name) % 256]
             b2 == [i \in 1..Len(b1) |->
                       IF i > offset + 1 /\ i <= offset + 1 + Len(name)
                       THEN WriteStr(name)[i - offset - 1] ELSE b1[i]]
         IN  WriteLabels(b2, Tail(names), offset + 1 + Len(name))

pkgQuestion(question, type, clazz) ==
    LET alloc == [i \in 1..(Len(question) + 2) |-> 0]
        w == WriteLabels(alloc, SplitDot(question), 0)
        questionBuf == [w.buf EXCEPT ![w.offset + 1] = 0]
    IN  questionBuf \o U16BE(type) \o U16BE(clazz)

\* pkgRR: every question of the list (name, type, class), then ttl, the
\* length of rdd and rdd itself.
pkgRR(questions, ttl, rdd) ==
    Flatten([i \in 1..Len(questions) |->
                pkgQuestion(questions[i].name, questions[i].type, questions[i].clazz)])
    \o U32BE(ttl) \o U16BE(Len(rdd)) \o rdd

\* ----------------------------------------------------------------- decoders
\* A decoded rdata: the slice of the message, or undefined when rdl is 0.
Buf(bytes) == [t |-> "buffer", v |-> bytes]
Undefined == [t |-> "undefined", v |-> << >>]

\* unpkgHeader on the (at least 12-byte) slice handed to it.
unpkgHeader(m) ==
    LET flagsBits == PadStart16(ToBinary(ReadU16(m, 2)))
    IN  [transactionId |-> ReadU16(m, 0),
         flags |-> [qr     |-> Str(SubSeq(flagsBits, 1, 1)),
                    opcode |-> Str(SubSeq(flagsBits, 2, 5)),
                    aa     |-> Str(SubSeq(flagsBits, 6, 6)),
                    tc     |-> Str(SubSeq(flagsBits, 7, 7)),
                    rd     |-> Str(SubSeq(flagsBits, 8, 8)),
                    ra     |-> Str(SubSeq(flagsBits, 9, 9)),
                    zero   |-> Str(SubSeq(flagsBits, 10, 12)),
                    rcode  |-> Str(SubSeq(flagsBits, 13, 16))],
         questionRRC   |-> ReadU16(m, 4),
         answerRRC     |-> ReadU16(m, 6),
         authorityRRC  |-> ReadU16(m, 8),
         additionalRRC |-> ReadU16(m, 10)]

\* (msg.readUInt8(offset) & 0b11000000) === 0b11000000
IsCompressed(m, off) == (ReadU8(m, off) \div 64) * 64 = 192

\* msg.readUInt16BE(offset) & 0b00111111
PointerTarget(m, off) == ReadU16(m, off) % 64

\* LabelStep resuming at a pointer's 14-bit target instead of taking the
\* pointer's first byte as a length.
LabelStepFollowing(m, off, len, nms) ==
    IF off < Len(m)
    THEN LET l == At(m, off)
         IN  IF l \div 64 = 3 /\ off + 1 < Len(m)
             THEN [go |-> TRUE, offset |-> ReadU16(m, off) % 16384, len |-> l,
                   names |-> nms]
             ELSE IF l # 0
             THEN [go |-> TRUE, offset |-> off + 1 + l, len |-> l,
                   names |-> Append(nms, ToAscii(Slice(m, off + 1, off + 1 + l)))]
             ELSE [go |-> FALSE, offset |-> off + 1, len |-> 0, names |-> nms]
    ELSE [go |-> FALSE, offset |-> off, len |-> len, names |-> nms]

\* One evaluation of the name loops' condition and, when it holds, body:
\*   while (offset < msg.length && 0 !== (_length = msg[offset++])) {
\*       names.push(msg.slice(offset, offset + _length).toString('ascii'));
\*       offset += _length; }
\* "go" tells whether the body ran; len is _length afterwards.
LabelStep(m, off, len, nms) ==
    IF off < Len(m)
    THEN LET l == At(m, off)
         IN  IF l # 0
             THEN [go |-> TRUE, offset |-> off + 1 + l, len |-> l,
                   names |-> Append(nms, ToAscii(Slice(m, off + 1, off + 1 + l)))]
             ELSE [go |-> FALSE, offset |-> off + 1, len |-> 0, names |-> nms]
    ELSE [go |-> FALSE, offset |-> off, len |-> len, names |-> nms]

\* rd of unpkgRR: msg.slice(offset, offset += rdl) when rdl > 0.
ResourceData(m, off, rdl) ==
    IF rdl > 0 THEN Buf(Slice(m, off, off + rdl)) ELSE Undefined

\* The argument of the A record's debug line reads rd's bytes 0..3 with
\* readUInt8, whether or not debugging is on: a RangeError when rd is shorter.
ARecordTextThrows(rrType, rdl, rd) == rdl > 0 /\ rrType = 1 /\ Len(rd.v) < 4

\* ------------------------------------------------------------- the handler
\* _.merge(header.flags, { qr: '1', tc: 0 })
ResFlags(flags) == [flags EXCEPT !.qr = Str(<< Chr1 >>), !.tc = Num(0)]

\* The stub answer: ttl 30 and the address 110.110.110.i of answer i = 0.
StubTtl == U32(0, 30)
StubData == << 110, 110, 110, 0 >>

\* res of the 'message' handler, from what unpkgdns returned.
Response(hdr, qs) ==
    pkgHeader(hdr.transactionId, ResFlags(hdr.flags), hdr.questionRRC, 1, 0, 0)
    \o Flatten([i \in 1..Len(qs) |-> pkgQuestion(qs[i].name, qs[i].type, qs[i].clazz)])
    \o pkgRR(qs, StubTtl, StubData)

\* ------------------------------------------------------------------ senders
\* The flags record of a 16-bit flag word, in unpkgHeader's representation.
FlagsOf(w) == unpkgHeader(<< 0, 0 >> \o U16BE(w) \o << 0, 0, 0, 0, 0, 0, 0, 0 >>).flags

\* A structured message: header fields, questions [name, type, clazz] and
\* records [name, type, clazz, ttl, rd] in three sections; names are dotted
\* strings.  Its header counts are the lengths of its sections.
Message(tid, w, qs, an, au, ad) ==
    [header |-> [transactionId |-> tid, flags |-> FlagsOf(w),
                 questionRRC |-> Len(qs), answerRRC |-> Len(an),
                 authorityRRC |-> Len(au), additionalRRC |-> Len(ad)],
     questions |-> qs, answers |-> an, authorities |-> au, additionals |-> ad]

NoMessage == Message(0, 0, << >>, << >>, << >>, << >>)

RRBytes(r) == pkgRR(<< [name |-> r.name, type |-> r.type, clazz |-> r.clazz] >>,
                    r.ttl, r.rd.v)

\* The bytes of a structured message: pkgHeader, pkgQuestion for every
\* question, pkgRR for every record, concatenated in section order.
Serialize(M) ==
    pkgHeader(M.header.transactionId, M.header.flags, M.header.questionRRC,
              M.header.answerRRC, M.header.authorityRRC, M.header.additionalRRC)
    \o Flatten([i \in 1..Len(M.questions) |->
          pkgQuestion(M.questions[i].name, M.questions[i].type, M.questions[i].clazz)])
    \o Flatten([i \in 1..Len(M.answers) |-> RRBytes(M.answers[i])])
    \o Flatten([i \in 1..Len(M.authorities) |-> RRBytes(M.authorities[i])])
    \o Flatten([i \in 1..Len(M.additionals) |-> RRBytes(M.additionals[i])])

\* Names: "a", "ww.c" and one 63-character label.
NameA == << 97 >>
NameWwC == << 119, 119, Dot, 99 >>
Name63 == [i \in 1..63 |-> 120]

Q(n, t, c) == [name |-> n, type |-> t, clazz |-> c]
RR(n, t, c, ttl, bytes) == [name |-> n, type |-> t, clazz |-> c, ttl |-> ttl, rd |-> Buf(bytes)]

QPool == { Q(NameA, 1, 1), Q(NameWwC, 65535, 255) }
RRPool == { RR(NameA, 1, 1, U32(0, 30), << 1, 2, 3, 4 >>),
            RR(NameWwC, 5, 1, U32(65535, 65535), << 192, 12 >>),
            RR(NameA, 16, 1, U32(0, 0), << >>) }
TxIds == { 0, 5545, 65535 }
FlagWords == { 0, 256, 512, 768, 33152, 30720, 112, 15, 65535 }

SeqsUpTo(S, n) == UNION { [1..k -> S] : k \in 0..n }

HeaderVariants ==
    { Message(tid, w, << Q(NameA, 1, 1) >>, << >>, << >>, << >>) :
        tid \in TxIds, w \in FlagWords }

BodyVariants ==
    { Message(5545, 256, qs, an, << >>, << >>) :
        qs \in SeqsUpTo(QPool, MaxEntries),
        an \in SeqsUpTo({ RR(NameWwC, 5, 1, U32(0, 30), << 192, 12 >>) }, 1) }
    \cup { Message(5545, 256, << Q(NameA, 1, 1) >>, an, au, << >>) :
              an \in SeqsUpTo(RRPool, MaxEntries),
              au \in SeqsUpTo({ RR(NameA, 2, 1, U32(0, 30), << 7 >>) }, 1) }

LongVariants ==
    { Message(0, 0, << Q(Name63, 1, 1) >>, << RR(Name63, 1, 1, U32(0, 30), << 9 >>) >>,
              << >>, << RR(NameWwC, 1, 1, U32(0, 30), << 1, 2, 3, 4 >>) >>) }

\* An A record whose data is shorter than an IPv4 address.
ShortAVariants ==
    { Message(1, 0, << >>, << RR(NameA, 1, 1, U32(0, 30), << 10, 0 >>) >>, << >>, << >>) }

Messages == HeaderVariants \cup BodyVariants \cup LongVariants \cup ShortAVariants

\* The messages whose every proper prefix is also sent.
PrefixBase ==
    { Message(5545, 256, << Q(NameA, 1, 1) >>, << RR(NameA, 1, 1, U32(0, 30), << 1, 2, 3, 4 >>) >>,
              << >>, << >>),
      Message(5545, 256, << Q(NameWwC, 1, 1) >>,
              << RR(NameWwC, 5, 1, U32(0, 30), << 192, 12 >>), RR(NameA, 1, 1, U32(0, 30), << 1, 2, 3, 4 >>) >>,
              << RR(NameA, 2, 1, U32(0, 30), << 7 >>) >>, << >>) }

\* The fixed fields and data of a record, after its name.
RRTail(type, ttl, bytes) == U16BE(type) \o U16BE(1) \o U32BE(ttl) \o U16BE(Len(bytes)) \o bytes

\* Header, one question "ww.c", one answer whose name is the bytes `name`.
WithRRName(name) ==
    pkgHeader(5545, FlagsOf(256), 1, 1, 0, 0) \o pkgQuestion(NameWwC, 1, 1)
    \o name \o RRTail(1, U32(0, 30), << 1, 2, 3, 4 >>)

\* The first answer's name starts at this offset in WithRRName.
RRNameAt == 12 + Len(pkgQuestion(NameWwC, 1, 1))

PointerNames ==
    { << hi, lo >> : hi \in { 192, 193, 255 }, lo \in { 0, 12, 15, RRNameAt, RRNameAt + 2, 64 } }
    \cup { << 1, 120, 192, 12 >>, << 1, 120, 0 >>, << 0 >>, << 192 >>, << 64, 97, 0 >> }

\* The question name is a 63-character label at offset 12 and "b" at
\* offset 76; the answer's name is the pointer c0 4c, to offset 76.
LongPointerMsg ==
    pkgHeader(0, FlagsOf(0), 1, 1, 0, 0)
    \o pkgQuestion(Name63 \o << Dot, 98 >>, 1, 1)
    \o << 192, 76 >> \o RRTail(1, U32(0, 30), << 1, 2, 3, 4 >>)

\* The message the program decodes at start-up.
SampleMsg ==
    << 21, 169, 129, 128, 0, 1, 0, 3, 0, 0, 0, 1,
       3, 119, 119, 119, 5, 98, 97, 105, 100, 117, 3, 99, 111, 109, 0, 0, 1, 0, 1,
       192, 12, 0, 5, 0, 1, 0, 0, 4, 94, 0, 15,
       3, 119, 119, 119, 1, 97, 6, 115, 104, 105, 102, 101, 110, 192, 22,
       192, 43, 0, 1, 0, 1, 0, 0, 0, 218, 0, 4, 180, 149, 132, 151,
       192, 43, 0, 1, 0, 1, 0, 0, 0, 218, 0, 4, 180, 149, 131, 98,
       0, 0, 41, 16, 0, 0, 0, 0, 0, 0, 0 >>

\* Queries whose question name is a pointer, the root name, or absent.
OddQueries ==
    { pkgHeader(7, FlagsOf(256), 1, 0, 0, 0) \o n \o U16BE(1) \o U16BE(1) :
        n \in { << 192, 12 >>, << 0 >>, << 1, 97, 192, 12 >>, << 200, 97, 0 >> } }
    \cup { pkgHeader(7, FlagsOf(256), c, 0, 0, 0) : c \in { 0, 1, 65535 } }
    \cup { pkgHeader(7, FlagsOf(0), 0, c, 0, 65535) : c \in { 1, 65535 } }
    \cup { << >>, << 21 >>, [i \in 1..11 |-> 0] }

\* One byte of a message overwritten.
Overwrite(m, p, v) == [m EXCEPT ![p] = v]
OverwriteValues == { 0, 63, 192, 255 }
OverwriteBase == WithRRName(<< 192, 12 >>)

Sent(kind, M, bytes) == [kind |-> kind, m |-> M, bytes |-> bytes]

\* What arrives at the socket from other hosts, with a note of how the
\* sender made it ("enc": serialized from m; "prefix": a proper prefix of a
\* serialized message; "raw": bytes written by hand).
Datagrams ==
    { Sent("enc", M, Serialize(M)) : M \in Messages }
    \cup UNION { { Sent("prefix", M, SubSeq(Serialize(M), 1, k)) :
                     k \in 0..(Len(Serialize(M)) - 1) } : M \in PrefixBase }
    \cup { Sent("raw", NoMessage, WithRRName(n)) : n \in PointerNames }
    \cup { Sent("raw", NoMessage, b) : b \in OddQueries \cup { SampleMsg, LongPointerMsg } }
    \cup { Sent("raw", NoMessage, Overwrite(OverwriteBase, p, v)) :
             p \in 1..Len(OverwriteBase), v \in OverwriteValues }

\* -------------------------------------------------------------------- state
VARIABLES
    sender,       \* who made the datagram being handled (not read by the program)
    msg,          \* the datagram handed to the 'message' handler
    pc,           \* where the process is
    offset,       \* unpkgdns's running offset, and the callee's while it runs
    _offset,      \* unpkgRR's cursor behind a compression pointer
    _length,      \* the last length byte a name loop read
    names,        \* the labels of the name being read (names, rrName)
    pointer,      \* the offset unpkgQuestion was called with
    rrStart,      \* the offset unpkgRR was called with, -1 before any call
    header,       \* what unpkgHeader returned
    questions, answers, authorities, additionals,
    res           \* the reply handed to server.send, << >> if none

vars == << sender, msg, pc, offset, _offset, _length, names, pointer, rrStart,
           header, questions, answers, authorities, additionals, res >>

locals == << offset, _offset, _length, names, pointer, rrStart >>
sections == << questions, answers, authorities, additionals >>

NoHeader == NoMessage.header

Init ==
    /\ sender = Sent("raw", NoMessage, << >>)
    /\ msg = << >>
    /\ pc = "listening"
    /\ offset = 0 /\ _offset = 0 /\ _length = 0 /\ names = << >>
    /\ pointer = 0 /\ rrStart = -1
    /\ header = NoHeader
    /\ questions = << >> /\ answers = << >> /\ authorities = << >> /\ additionals = << >>
    /\ res = << >>

\* What the query's sender is told of when the reply is sent back to it and
\* it in turn is delivered to a server: the header and questions decoded.
Asked == [NoMessage EXCEPT !.header = header,
             !.questions = [i \in 1..Len(questions) |->
                 Q(questions[i].name, questions[i].type, questions[i].clazz)]]

\* A datagram arrives and the 'message' handler starts: unpkgdns(msg).
Receive ==
    /\ pc = "listening"
    /\ \E d \in Datagrams \cup (IF res # << >> THEN { Sent("reply", Asked, res) } ELSE { }) :
          /\ sender' = d
          /\ msg' = d.bytes
    /\ pc' = "header"
    /\ offset' = 0 /\ _offset' = 0 /\ _length' = 0 /\ names' = << >>
    /\ pointer' = 0 /\ rrStart' = -1
    /\ header' = NoHeader
    /\ questions' = << >> /\ answers' = << >> /\ authorities' = << >> /\ additionals' = << >>
    /\ res' = << >>

\* An exception leaves the handler: nothing catches it, the process dies.
Throw ==
    /\ pc' = "crashed"
    /\ UNCHANGED << sender, msg, locals, header, sections, res >>

\* let header = unpkgHeader(msg.slice(0, 12)); let offset = 12;
DecodeHeader ==
    /\ pc = "header"
    /\ IF CanRead(Slice(msg, 0, 12), 10, 2)
       THEN /\ header' = unpkgHeader(Slice(msg, 0, 12))
            /\ offset' = 12
            /\ pc' = "questions"
            /\ UNCHANGED << sender, msg, _offset, _length, names, pointer, rrStart,
                            sections, res >>
       ELSE Throw

\* for (let i = 0; i < header.questionRRC; i++) unpkgQuestion(msg, offset)
QuestionsLoop ==
    /\ pc = "questions"
    /\ IF Len(questions) < header.questionRRC
       THEN /\ pc' = "qname"
            /\ pointer' = offset
            /\ _length' = 0
            /\ names' = << >>
       ELSE /\ pc' = "answers"
            /\ UNCHANGED << pointer, _length, names >>
    /\ UNCHANGED << sender, msg, offset, _offset, rrStart, header, sections, res >>

\* unpkgQuestion's name loop, one test of its condition.
QuestionName ==
    /\ pc = "qname"
    /\ LET s == LabelStep(msg, offset, _length, names)
       IN  /\ offset' = s.offset
           /\ _length' = s.len
           /\ names' = s.names
           /\ pc' = IF s.go THEN "qname" ELSE "qfields"
    /\ UNCHANGED << sender, msg, _offset, pointer, rrStart, header, sections, res >>

\* unpkgQuestion's type and class, its return and the push of unpkgdns.
QuestionFields ==
    /\ pc = "qfields"
    /\ IF CanRead(msg, offset, 2) /\ CanRead(msg, offset + 2, 2)
       THEN /\ questions' = Append(questions,
                  [names |-> names, type |-> ReadU16(msg, offset),
                   clazz |-> ReadU16(msg, offset + 2), pointer |-> pointer,
                   offset |-> offset + 4, name |-> JoinDot(names)])
            /\ offset' = offset + 4
            /\ pc' = "questions"
            /\ UNCHANGED << sender, msg, _offset, _length, names, pointer, rrStart,
                            header, answers, authorities, additionals, res >>
       ELSE Throw

\* The call unpkgRR(msg, offset) of one of the three record loops.
CallRR ==
    /\ pc' = "rrname"
    /\ rrStart' = offset
    /\ _length' = 0
    /\ names' = << >>
    /\ UNCHANGED << sender, msg, offset, _offset, pointer, header, sections, res >>

LoopExit(next) ==
    /\ pc' = next
    /\ UNCHANGED << sender, msg, locals, header, sections, res >>

\* for (let i = 0; i < header.answerRRC; i++)
AnswersLoop ==
    /\ pc = "answers"
    /\ IF Len(answers) < header.answerRRC THEN CallRR ELSE LoopExit("authorities")

\* for (let i = 0; i < header.authorityRRC; i++)
AuthoritiesLoop ==
    /\ pc = "authorities"
    /\ IF Len(authorities) < header.authorityRRC THEN CallRR ELSE LoopExit("additionals")

\* for (let i = 0; i < header.additionalRRC; i++), then unpkgdns returns.
AdditionalsLoop ==
    /\ pc = "additionals"
    /\ IF Len(additionals) < header.additionalRRC THEN CallRR ELSE LoopExit("done")

\* unpkgRR's test of the name's first byte.
RRNameStart ==
    /\ pc = "rrname"
    /\ IF ~CanRead(msg, offset, 1) THEN Throw
       ELSE IF IsCompressed(msg, offset)
       THEN IF ~CanRead(msg, offset, 2) THEN Throw
            ELSE /\ _offset' = PointerTarget(msg, offset)
                 /\ pc' = "rrptr"
                 /\ UNCHANGED << sender, msg, offset, _length, names, pointer, rrStart,
                                 header, sections, res >>
       ELSE /\ pc' = "rrlit"
            /\ UNCHANGED << sender, msg, locals, header, sections, res >>

\* The loop behind a pointer, one test of its condition; offset += 2 after it.
RRPointerName ==
    /\ pc = "rrptr"
    /\ LET s == LabelStep(msg, _offset, _length, names)
       IN  /\ _offset' = s.offset
           /\ _length' = s.len
           /\ names' = s.names
           /\ pc' = IF s.go THEN "rrptr" ELSE "rrfields"
           /\ offset' = IF s.go THEN offset ELSE offset + 2
    /\ UNCHANGED << sender, msg, pointer, rrStart, header, sections, res >>

\* The loop of a name that starts with a literal length, one test.
RRLiteralName ==
    /\ pc = "rrlit"
    /\ LET s == LabelStep(msg, offset, _length, names)
       IN  /\ offset' = s.offset
           /\ _length' = s.len
           /\ names' = s.names
           /\ pc' = IF s.go THEN "rrlit" ELSE "rrfields"
    /\ UNCHANGED << sender, msg, _offset, pointer, rrStart, header, sections, res >>

\* The section unpkgdns is filling.
Section ==
    IF Len(answers) < header.answerRRC THEN "answers"
    ELSE IF Len(authorities) < header.authorityRRC THEN "authorities"
    ELSE "additionals"

\* unpkgRR's type, class, ttl, rdl and rd, its return and the push.
RRFields ==
    /\ pc = "rrfields"
    /\ IF ~CanRead(msg, offset, 10) THEN Throw
       ELSE LET rrType == ReadU16(msg, offset)
                rdl == ReadU16(msg, offset + 8)
                rd == ResourceData(msg, offset + 10, rdl)
                rr == [rrName |-> names, rrType |-> rrType,
                       rrClass |-> ReadU16(msg, offset + 2),
                       ttl |-> ReadU32(msg, offset + 4), rdl |-> rdl, rd |-> rd,
                       offset |-> offset + 10 + rdl]
            IN  IF ARecordTextThrows(rrType, rdl, rd) THEN Throw
                ELSE /\ offset' = rr.offset
                     /\ pc' = Section
                     /\ answers' = IF Section = "answers" THEN Append(answers, rr) ELSE answers
                     /\ authorities' = IF Section = "authorities"
                                       THEN Append(authorities, rr) ELSE authorities
                     /\ additionals' = IF Section = "additionals"
                                       THEN Append(additionals, rr) ELSE additionals
                     /\ UNCHANGED << sender, msg, _offset, _length, names, pointer,
                                     rrStart, header, questions, res >>

\* The rest of the 'message' handler: build res and server.send it.
Reply ==
    /\ pc = "done"
    /\ res' = Response(header, questions)
    /\ pc' = "listening"
    /\ UNCHANGED << sender, msg, locals, header, sections >>

\* The socket's 'error' event: server.close().
OnError ==
    /\ pc = "listening"
    /\ pc' = "closed"
    /\ UNCHANGED << sender, msg, locals, header, sections, res >>

Decode ==
    \/ DecodeHeader \/ QuestionsLoop \/ QuestionName \/ QuestionFields
    \/ AnswersLoop \/ AuthoritiesLoop \/ AdditionalsLoop
    \/ RRNameStart \/ RRPointerName \/ RRLiteralName \/ RRFields

Next == Receive \/ Decode \/ Reply \/ OnError

Spec == Init /\ [][Next]_vars

\* The handler runs to completion once started: no step of it waits.
FairSpec == Spec /\ WF_vars(Decode \/ Reply)

\* ------------------------------------------------------------------ claims
\* unpkgdns has returned for msg (the reply may have been sent since).
Returned == pc \in { "done", "listening" } /\ sender.bytes = msg /\ Len(msg) >= 12

\* unpkgRR has returned the record that starts at rrStart.
RRReturned ==
    /\ rrStart # -1
    /\ pc \in { "answers", "authorities", "additionals", "done", "listening" }

AllRecords == answers \o authorities \o additionals
LastRecord == AllRecords[Len(AllRecords)]

\* The 14 bits after the two marker bits of a pointer at off.
Target14(m, off) == ReadU16(m, off) % 16384

AsQuestions(qs) == [i \in 1..Len(qs) |-> Q(qs[i].name, qs[i].type, qs[i].clazz)]
AsRecords(rs) ==
    [i \in 1..Len(rs) |->
        [name |-> JoinDot(rs[i].rrName), type |-> rs[i].rrType, clazz |-> rs[i].rrClass,
         ttl |-> rs[i].ttl, rd |-> rs[i].rd]]

\* What unpkgdns returned, in the shape of a sender's structured message.
DecodedMessage ==
    [header |-> header, questions |-> AsQuestions(questions),
     answers |-> AsRecords(answers), authorities |-> AsRecords(authorities),
     additionals |-> AsRecords(additionals)]

Finished == pc \in { "done", "listening", "crashed" } /\ sender.bytes = msg

\* C1: decoding the serialization of a message M (labels of 1-63 ASCII
\* bytes, fields within their widths, rdata a byte sequence) returns a
\* message structurally equal to M.
RoundTrip ==
    (Finished /\ sender.kind = "enc") => (pc # "crashed" /\ DecodedMessage = sender.m)

\* The records of M on which the round trip can be expected of this code:
\* rdata is not empty, and an A record carries at least 4 bytes.
Plain(rs) == \A i \in 1..Len(rs) : Len(rs[i].rd.v) > 0 /\ (rs[i].type = 1 => Len(rs[i].rd.v) >= 4)

\* The round trip of C1 on the messages whose records are all Plain.
RoundTripPlain ==
    (Finished /\ sender.kind = "enc"
       /\ Plain(sender.m.answers \o sender.m.authorities \o sender.m.additionals))
    => (pc # "crashed" /\ DecodedMessage = sender.m)

\* C2: a record whose name is a compression pointer at offset P with a
\* target >= P is never returned by unpkgRR: decoding fails instead.
BackwardPointersOnly ==
    ~(RRReturned /\ IsCompressed(msg, rrStart) /\ Target14(msg, rrStart) >= rrStart)

\* unpkgdns read no field, label or rdata past the end of msg.
Complete ==
    /\ offset <= Len(msg)
    /\ \A i \in 1..Len(AllRecords) : Len(AllRecords[i].rd.v) = AllRecords[i].rdl

\* C3: unpkgdns of a proper prefix of a valid message returns a Message only
\* when the prefix is complete for its header's counts: nothing in it is cut
\* short by the end of the prefix.
PrefixCompleteOrError ==
    (sender.kind = "prefix" /\ pc = "done") => Complete

RECURSIVE LabelsFrom(_, _, _)
\* The label sequence that starts at an offset of the message.
LabelsFrom(m, off, nms) ==
    LET s == LabelStep(m, off, 0, nms)
    IN  IF s.go THEN LabelsFrom(m, s.offset, s.names) ELSE s.names

\* C4: the name unpkgRR returns for a compression pointer is the label
\* sequence at the pointer's full 14-bit target, for every target inside
\* the message.
PointerResolution ==
    (RRReturned /\ IsCompressed(msg, rrStart) /\ Target14(msg, rrStart) < Len(msg))
    => LastRecord.rrName = LabelsFrom(msg, Target14(msg, rrStart), << >>)

\* C5: no name loop consumes a length byte whose top two bits are both set
\* as a literal label length.
NoPointerByteAsLength == (_length \div 64) # 3

\* C6: every record unpkgRR returns has rd of exactly rdl bytes (none when
\* rdl is 0); a declared rdl beyond the end of the buffer is an error.
RdataLength ==
    \A i \in 1..Len(AllRecords) : Len(AllRecords[i].rd.v) = AllRecords[i].rdl

\* C7: a decode error in the 'message' handler stays with its datagram: the
\* process keeps running.
SurvivesDecodeError == pc # "crashed"

\* Bit b (0 = least significant) of a 16-bit word.
Bit(w, b) == (w \div (2 ^ b)) % 2

\* C8: the reply's header echoes the query's transactionId, has qr = 1 and
\* tc = 0, and every other flag bit (opcode, aa, rd, ra, z, rcode) as in the
\* query, at the same position.
Echo ==
    (Returned /\ pc = "listening") =>
        /\ Len(res) >= 12
        /\ ReadU16(res, 0) = ReadU16(msg, 0)
        /\ Bit(ReadU16(res, 2), 15) = 1
        /\ Bit(ReadU16(res, 2), 9) = 0
        /\ \A b \in (0..14) \ { 9 } : Bit(ReadU16(res, 2), b) = Bit(ReadU16(msg, 2), b)

\* A reply was sent to a query with tc = 1, rd = 1, ra = 0 and qr = 0.
EchoWitness ==
    /\ Returned /\ pc = "listening" /\ res # << >>
    /\ ReadU16(msg, 2) = 768
    /\ ReadU16(res, 2) = 33024

\* C9: for any number n of questions, the reply decodes completely into the
\* query's n questions and one answer with ttl 30 and the 4 bytes of data.
ReplyWellFormed ==
    (Finished /\ sender.kind = "reply") =>
        /\ pc # "crashed"
        /\ offset = Len(msg)
        /\ AsQuestions(questions) = sender.m.questions
        /\ Len(AllRecords) = 1 /\ Len(answers) = 1
        /\ answers[1].ttl = StubTtl
        /\ answers[1].rdl = 4
        /\ answers[1].rd = Buf(StubData)

DecodePcs == { "header", "questions", "qname", "qfields", "answers", "authorities",
               "additionals", "rrname", "rrptr", "rrlit", "rrfields" }

\* Every pass through a name loop's body moves its cursor forward.
CursorAdvances ==
    [][ /\ (pc \in { "qname", "rrlit" } /\ pc' = pc) => offset' > offset
        /\ (pc = "rrptr" /\ pc' = pc) => (_offset' > _offset /\ _offset < Len(msg)) ]_vars

\* C10: unpkgdns terminates on every buffer, by returning or by throwing;
\* its name loops move forward only and stop at the end of the buffer.
Termination ==
    /\ (pc \in DecodePcs) ~> (pc \in { "done", "crashed" })
    /\ CursorAdvances

\* unpkgdns returned a record whose name is a pointer to itself.
TerminationWitness ==
    /\ pc = "done"
    /\ rrStart # -1
    /\ IsCompressed(msg, rrStart)
    /\ PointerTarget(msg, rrStart) = rrStart

=============================================================================
